---------------------------- MODULE Spec2Model ----------------------------
(***************************************************************************)
(* A model of PhishGuard (app/features.py, app/ml.py, app/main.py).        *)
(*                                                                         *)
(* Python strings are sequences of one-character strings; the value None   *)
(* is the one-element sequence <<"<None>">>, which no string equals.       *)
(* Probabilities and heuristic scores are counted in hundredths (50 is     *)
(* 0.5).  urllib.parse.urlparse is modelled as CPython 3.11 implements it, *)
(* for ASCII input without '%', tab, CR or LF.                             *)
(***************************************************************************)
EXTENDS Integers, Sequences, FiniteSets, TLC

(***************************************************************************)
(* Python str operations                                                   *)
(***************************************************************************)
None == <<"<None>">>

Digits == {"0", "1", "2", "3", "4", "5", "6", "7", "8", "9"}

UpperCase == <<"A", "B", "C", "D", "E", "F", "G", "H", "I", "J", "K", "L", "M",
               "N", "O", "P", "Q", "R", "S", "T", "U", "V", "W", "X", "Y", "Z",
               "E_acute">>

LowerCase == <<"a", "b", "c", "d", "e", "f", "g", "h", "i", "j", "k", "l", "m",
               "n", "o", "p", "q", "r", "s", "t", "u", "v", "w", "x", "y", "z",
               "e_acute">>

HexDigits == Digits \cup {"a", "b", "c", "d", "e", "f", "A", "B", "C", "D", "E", "F"}

LowerOf ==
    [c \in {UpperCase[i] : i \in 1..Len(UpperCase)} |->
        LowerCase[CHOOSE i \in 1..Len(UpperCase) : UpperCase[i] = c]] @@ <<>>

\* str.lower() on one character
LowerChar(c) == IF c \in DOMAIN LowerOf THEN LowerOf[c] ELSE c

\* str.lower()
Lower(s) == [i \in 1..Len(s) |-> LowerChar(s[i])]

\* c in s, for a character c
HasChar(s, c) == \E i \in 1..Len(s) : s[i] = c

\* s.find(c, start) for a character c, 1-based; 0 when absent
Find(s, c, start) ==
    IF \E i \in start..Len(s) : s[i] = c
    THEN CHOOSE i \in start..Len(s) : s[i] = c /\ \A j \in start..(i - 1) : s[j] # c
    ELSE 0

\* s.rfind(c), 1-based; 0 when absent
RFind(s, c) ==
    IF HasChar(s, c)
    THEN CHOOSE i \in 1..Len(s) : s[i] = c /\ \A j \in (i + 1)..Len(s) : s[j] # c
    ELSE 0

\* s[i:] for a 1-based first index i
From(s, i) == SubSeq(s, i, Len(s))

\* s[:i] up to and excluding the 1-based index i
Before(s, i) == SubSeq(s, 1, i - 1)

\* s.split(c) for a character c
RECURSIVE Split(_, _)
Split(s, c) ==
    IF ~HasChar(s, c) THEN <<s>>
    ELSE LET i == Find(s, c, 1) IN <<Before(s, i)>> \o Split(From(s, i + 1), c)

\* w in s, for a string w (substring test)
IsSubstring(w, s) ==
    \E i \in 0..(Len(s) - Len(w)) : \A j \in 1..Len(w) : s[i + j] = w[j]

\* s.lstrip(" "): the leading spaces removed
RECURSIVE LStrip(_)
LStrip(s) == IF s # <<>> /\ s[1] = " " THEN LStrip(Tail(s)) ELSE s

\* s.strip(" ")
RECURSIVE RStrip(_)
RStrip(s) == IF s # <<>> /\ s[Len(s)] = " " THEN RStrip(Before(s, Len(s))) ELSE s

Strip(s) == RStrip(LStrip(s))

(***************************************************************************)
(* urllib.parse.urlparse, as extract_url_features uses it                  *)
(***************************************************************************)
AsciiLetters == {LowerCase[i] : i \in 1..26} \cup {UpperCase[i] : i \in 1..26}

\* urllib.parse.scheme_chars
scheme_chars == AsciiLetters \cup Digits \cup {"+", "-", "."}

\* urllib.parse.uses_params
uses_params ==
    { <<>>, <<"f","t","p">>, <<"h","d","l">>, <<"p","r","o","s","p","e","r","o">>,
      <<"h","t","t","p">>, <<"i","m","a","p">>, <<"h","t","t","p","s">>,
      <<"s","h","t","t","p">>, <<"r","t","s","p">>, <<"r","t","s","p","s">>,
      <<"r","t","s","p","u">>, <<"s","i","p">>, <<"s","i","p","s">>,
      <<"m","m","s">>, <<"s","f","t","p">>, <<"t","e","l">> }

\* the value of a decimal string
RECURSIVE DecimalValue(_)
DecimalValue(s) ==
    IF s = <<>> THEN 0
    ELSE 10 * DecimalValue(Before(s, Len(s)))
         + (CHOOSE d \in 0..9 : ToString(d) = s[Len(s)])

\* ipaddress.IPv4Address(s) does not raise
IsIPv4Address(s) ==
    LET octets == Split(s, ".") IN
    /\ Len(octets) = 4
    /\ \A k \in 1..4 :
          LET o == octets[k] IN
          /\ o # <<>>
          /\ \A j \in 1..Len(o) : o[j] \in Digits
          /\ Len(o) <= 3
          /\ ~(Len(o) > 1 /\ o[1] = "0")
          /\ DecimalValue(o) <= 255

\* ipaddress.IPv6Address: one group of up to four hexadecimal digits
IsHextet(p) == p # <<>> /\ Len(p) <= 4 /\ \A j \in 1..Len(p) : p[j] \in HexDigits

\* ipaddress.IPv6Address: the groups before and after the one "::", hi and
\* lo of them
IPv6Sides(parts, hi, lo) ==
    /\ parts[1] = <<>> => hi = 0
    /\ parts[Len(parts)] = <<>> => lo = 0
    /\ 8 - (hi + lo) >= 1
    /\ \A i \in 1..hi : IsHextet(parts[i])
    /\ \A i \in (Len(parts) - lo + 1)..Len(parts) : IsHextet(parts[i])

\* ipaddress.IPv6Address: the groups, with skips the places of an empty one
IPv6Groups(parts, skips) ==
    /\ Len(parts) <= 9
    /\ Cardinality(skips) <= 1
    /\ IF skips # {}
       THEN IPv6Sides(parts,
                      (CHOOSE i \in skips : TRUE) - (IF parts[1] = <<>> THEN 2 ELSE 1),
                      Len(parts) - (CHOOSE i \in skips : TRUE)
                          - (IF parts[Len(parts)] = <<>> THEN 1 ELSE 0))
       ELSE Len(parts) = 8 /\ \A i \in 1..8 : IsHextet(parts[i])

\* ipaddress.IPv6Address: the address split at ":"; an IPv4 suffix stands
\* for two groups
IPv6Parts(raw) ==
    /\ Len(raw) >= 3
    /\ IF HasChar(raw[Len(raw)], ".")
       THEN /\ IsIPv4Address(raw[Len(raw)])
            /\ IPv6Groups(Before(raw, Len(raw)) \o << <<"0">>, <<"0">> >>,
                          {i \in 2..Len(raw) : raw[i] = <<>>})
       ELSE IPv6Groups(raw, {i \in 2..(Len(raw) - 1) : raw[i] = <<>>})

\* ipaddress.IPv6Address(s) does not raise (s holds no '%' scope id)
IsIPv6Address(s) == s # <<>> /\ IPv6Parts(Split(s, ":"))

\* urllib.parse._check_bracketed_host(hostname) does not raise
BracketedHostOk(h) ==
    IF h # <<>> /\ h[1] = "v"
    THEN \* re.match(r"\Av[a-fA-F0-9]+\..+\Z", hostname)
         \E k \in 1..Len(h) :
            /\ \A j \in 2..(k + 1) : j <= Len(h) /\ h[j] \in HexDigits
            /\ k + 2 <= Len(h) /\ h[k + 2] = "."
            /\ Len(h) >= k + 3
    ELSE IsIPv6Address(h)

\* urllib.parse.urlsplit: the scheme taken off u, when the text before the
\* first ':' (at i) is one
SchemeAt(u, i) ==
    IF /\ i > 1
       /\ u[1] \in AsciiLetters
       /\ \A k \in 1..(i - 1) : u[k] \in scheme_chars
    THEN [scheme |-> Lower(Before(u, i)), rest |-> From(u, i + 1)]
    ELSE [scheme |-> <<>>, rest |-> u]

\* urllib.parse.urlsplit up to the netloc: [scheme, rest]
SplitScheme(url) == SchemeAt(LStrip(url), Find(LStrip(url), ":", 1))

\* urllib.parse._splitnetloc(url, 2), with ends the places of '/', '?', '#'
NetlocUpTo(u, ends) ==
    IF ends = {} THEN [netloc |-> From(u, 3), rest |-> <<>>]
    ELSE [netloc |-> SubSeq(u, 3, (CHOOSE e \in ends : \A f \in ends : e <= f) - 1),
          rest |-> From(u, CHOOSE e \in ends : \A f \in ends : e <= f)]

\* urllib.parse._splitnetloc(url, 2): [netloc, rest]
SplitNetloc(u) == NetlocUpTo(u, {Find(u, c, 3) : c \in {"/", "?", "#"}} \ {0})

\* url[:2] == '//'
HasNetloc(u) == Len(u) >= 2 /\ u[1] = "/" /\ u[2] = "/"

\* netloc.partition('[')[2].partition(']')[0], for the text after the '['
UpToClose(after) ==
    IF HasChar(after, "]") THEN Before(after, Find(after, "]", 1)) ELSE after

\* urlsplit raises ValueError for this netloc
NetlocRaises(netloc) ==
    \/ HasChar(netloc, "[") /\ ~HasChar(netloc, "]")
    \/ HasChar(netloc, "]") /\ ~HasChar(netloc, "[")
    \/ /\ HasChar(netloc, "[") /\ HasChar(netloc, "]")
       /\ ~BracketedHostOk(UpToClose(From(netloc, Find(netloc, "[", 1) + 1)))

\* urlsplit raises ValueError for what follows the scheme
RestRaises(u) == HasNetloc(u) /\ NetlocRaises(SplitNetloc(u).netloc)

\* urlparse(url) raises ValueError
urlparse_raises(url) == RestRaises(SplitScheme(url).rest)

\* url.split(c, 1)[0]
UpTo(u, c) == IF HasChar(u, c) THEN Before(u, Find(u, c, 1)) ELSE u

\* urllib.parse._splitparams(url)[0], for a url that holds a ';'
SplitParams(url) ==
    IF HasChar(url, "/")
    THEN IF Find(url, ";", RFind(url, "/")) = 0 THEN url
         ELSE Before(url, Find(url, ";", RFind(url, "/")))
    ELSE Before(url, Find(url, ";", 1))

\* urlparse: the path without its params
PathOf(scheme, u) ==
    IF scheme \in uses_params /\ HasChar(u, ";") THEN SplitParams(u) ELSE u

\* urlparse, from the netloc on
ParseRest(scheme, nl) ==
    [scheme |-> scheme, netloc |-> nl.netloc,
     path |-> PathOf(scheme, UpTo(UpTo(nl.rest, "#"), "?"))]

\* urlparse, from the scheme on
ParseScheme(sp) ==
    ParseRest(sp.scheme, IF HasNetloc(sp.rest) THEN SplitNetloc(sp.rest)
                         ELSE [netloc |-> <<>>, rest |-> sp.rest])

\* urlparse(url), when it does not raise: [scheme, netloc, path]
urlparse(url) == ParseScheme(SplitScheme(url))

(***************************************************************************)
(* app/features.py                                                         *)
(***************************************************************************)
\* a variant of IP_REGEX without its final "$": the domain begins with four
\* groups of digits
IP_REGEX_prefix_match(domain) ==
    /\ Len(Split(domain, ".")) >= 4
    /\ \A k \in 1..3 :
          /\ Len(Split(domain, ".")[k]) \in 1..3
          /\ \A j \in 1..Len(Split(domain, ".")[k]) : Split(domain, ".")[k][j] \in Digits
    /\ Split(domain, ".")[4] # <<>>
    /\ Split(domain, ".")[4][1] \in Digits

\* IP_REGEX.match(domain): four groups of one to three digits
IP_REGEX_match(domain) ==
    LET groups == Split(domain, ".") IN
    /\ Len(groups) = 4
    /\ \A k \in 1..4 :
          /\ Len(groups[k]) \in 1..3
          /\ \A j \in 1..Len(groups[k]) : groups[k][j] \in Digits

\* the value extract_url_features returns for an empty url
DefaultFeatures ==
    [domain |-> None, tld |-> None, has_ip |-> FALSE, url_length |-> 0, num_dots |-> 0]

\* netloc.split(":")[0]
PortStripped(netloc) == Split(netloc, ":")[1]

\* parts[-1] if len(parts) > 1 else None
TldOf(parts) == IF Len(parts) > 1 THEN parts[Len(parts)] ELSE None

\* the dict extract_url_features returns
Features(url, domain) ==
    [domain |-> domain,
     tld |-> TldOf(Split(domain, ".")),
     has_ip |-> IP_REGEX_match(domain),
     url_length |-> Len(url),
     num_dots |-> Cardinality({i \in 1..Len(url) : url[i] = "."})]

\* parsed.netloc or parsed.path
NetlocOrPath(parsed) == IF parsed.netloc # <<>> THEN parsed.netloc ELSE parsed.path

\* extract_url_features(url), when urlparse does not raise
extract_url_features(url) ==
    IF url = <<>> THEN DefaultFeatures
    ELSE Features(url, PortStripped(NetlocOrPath(urlparse(url))))

\* extract_url_features(url) raises (the ValueError of urlparse, uncaught)
extract_url_features_raises(url) == url # <<>> /\ urlparse_raises(url)

\* SUSPICIOUS_WORDS ("e_acute" is the letter e with an acute accent)
SUSPICIOUS_WORDS ==
    << <<"v","e","r","i","f","y">>,
       <<"v","e","r","i","f","i","c","a","t","i","o","n">>,
       <<"a","c","c","o","u","n","t">>,
       <<"b","a","n","k">>,
       <<"p","a","s","s","w","o","r","d">>,
       <<"u","r","g","e","n","t">>,
       <<"i","m","m","e","d","i","a","t","e","l","y">>,
       <<"s","e","c","u","r","i","t","y">>,
       <<"l","o","g","i","n">>,
       <<"u","p","d","a","t","e">>,
       <<"c","o","n","f","i","r","m">>,
       <<"p","a","y","p","a","l">>,
       <<"b","t","c">>,
       <<"c","r","y","p","t","o">>,
       <<"c","o","m","p","t","e">>,
       <<"u","r","g","e","n","c","e">>,
       <<"c","o","n","f","i","r","m","e","r">>,
       <<"s","e_acute","c","u","r","i","t","e_acute">> >>

\* suspicious_words_count(text)
suspicious_words_count(text) ==
    LET text_lower == Lower(text) IN
    Cardinality({k \in 1..Len(SUSPICIOUS_WORDS) : IsSubstring(SUSPICIOUS_WORDS[k], text_lower)})

\* subject or "" (None and "" are the falsy strings)
OrEmpty(x) == IF x = None THEN <<>> ELSE x

\* (subject or "") + " " + (body or "")
FullText(subject, body) == OrEmpty(subject) \o <<" ">> \o OrEmpty(body)

suspicious_tlds == { <<"r","u">>, <<"c","n">>, <<"x","y","z">>, <<"t","o","p">>,
                     <<"c","l","u","b">> }

\* the four rules of simple_phishing_score, in the order the code evaluates them
RuleWords(count) == count > 0
RuleIp(url_feats) == url_feats.has_ip
RuleTld(url_feats) == url_feats.tld \in suspicious_tlds
RuleLength(url_feats) == url_feats.url_length > 80

\* the explanation strings, each as the pieces its f-string is made of
\* (accents left out of the fixed text)
ExplainWords(count) == <<ToString(count), " mot(s) sensible(s) detecte(s) dans le texte">>
ExplainIp == <<"URL contient une adresse IP">>
ExplainTld(tld) == <<"TLD potentiellement suspect: .">> \o tld
ExplainLength == <<"URL tres longue (> 80 caracteres)">>
ExplainNothing == <<"Aucune caracteristique tres suspecte detectee">>

Min(a, b) == IF a <= b THEN a ELSE b
Max(a, b) == IF a >= b THEN a ELSE b

\* a variant of the fallback: the list left as it is
KeepEmpty(explanations) == explanations

\* if not explanations: explanations.append(...)
OrNothing(explanations) == IF explanations = <<>> THEN <<ExplainNothing>> ELSE explanations

\* the explanations list simple_phishing_score builds
Explanations(count, url_feats) ==
    OrNothing((IF RuleWords(count) THEN <<ExplainWords(count)>> ELSE <<>>)
              \o (IF RuleIp(url_feats) THEN <<ExplainIp>> ELSE <<>>)
              \o (IF RuleTld(url_feats) THEN <<ExplainTld(url_feats.tld)>> ELSE <<>>)
              \o (IF RuleLength(url_feats) THEN <<ExplainLength>> ELSE <<>>))

\* a variant of the score: the words' contribution without its cap of 0.6
HeuristicScoreUncapped(count, url_feats) ==
    Max(0, Min(100, count * 12
                    + (IF RuleIp(url_feats) THEN 25 ELSE 0)
                    + (IF RuleTld(url_feats) THEN 15 ELSE 0)
                    + (IF RuleLength(url_feats) THEN 10 ELSE 0)))

\* the score of simple_phishing_score, in hundredths
HeuristicScore(count, url_feats) ==
    LET score_words == Min(count * 12, 60)
        score_ip == IF RuleIp(url_feats) THEN 25 ELSE 0
        score_tld == IF RuleTld(url_feats) THEN 15 ELSE 0
        score_length == IF RuleLength(url_feats) THEN 10 ELSE 0
    IN Max(0, Min(100, score_words + score_ip + score_tld + score_length))

\* the tuple simple_phishing_score returns
ScoreResult(count, url_feats) ==
    [score |-> HeuristicScore(count, url_feats),
     explanations |-> Explanations(count, url_feats),
     url_feats |-> url_feats]

\* simple_phishing_score(subject, body, url), when extract_url_features
\* does not raise
simple_phishing_score(subject, body, url) ==
    ScoreResult(suspicious_words_count(FullText(subject, body)),
                extract_url_features(OrEmpty(url)))

\* simple_phishing_score(subject, body, url) raises
simple_phishing_score_raises(subject, body, url) ==
    extract_url_features_raises(OrEmpty(url))

(***************************************************************************)
(* The inputs of the feature functions: a url is up to MaxUrlParts of the  *)
(* pieces below, concatenated.                                             *)
(***************************************************************************)
MaxUrlParts == 3

\* "/" and 72 letters: with "http://" in front the url is 80 characters long
LongPath == <<"/">> \o [i \in 1..72 |-> "a"]

UrlPieces ==
    { <<"h","t","t","p",":","/","/">>, <<"/","/">>, <<"a",".","r","u">>,
      <<"1",".","2",".","3",".","4">>, <<":","8","0">>, <<"u",":","p","@">>,
      <<"[">>, <<"]">>, <<"[",":",":","1","]">>, <<"/">>, <<"0">>, <<";">>,
      <<" ">>, LongPath }

RECURSIVE Concat(_)
Concat(ps) == IF ps = <<>> THEN <<>> ELSE Head(ps) \o Concat(Tail(ps))

UrlsOf(pieces) == UNION { {Concat(ps) : ps \in [1..n -> pieces]} : n \in 0..MaxUrlParts }

\* the urls extract_url_features is called with
Urls == UrlsOf(UrlPieces)

\* the urls simple_phishing_score is called with: those that make each of
\* its three url rules fire or not, and one that makes urlparse raise
ScoreUrlPieces ==
    { <<"h","t","t","p",":","/","/">>, <<"a",".","r","u">>,
      <<"1",".","2",".","3",".","4">>, <<":","8","0">>, <<"[">>, <<"/">>, LongPath }

ScoreUrls == UrlsOf(ScoreUrlPieces) \cup {None}

Subjects ==
    { None, <<>>, <<"U","R","G","E","N","T",":"," ","v","e","r","i","f","y">>,
      <<"S","E_acute","C","U","R","I","T","E_acute">> }

Bodies ==
    { <<>>, <<"C","o","n","f","i","r","m","e","r"," ","c","o","m","p","t","e">>,
      <<"b","a","n","k"," ","a","c","c","o","u","n","t"," ","l","o","g","i","n"," ",
        "u","p","d","a","t","e"," ","p","a","y","p","a","l"," ","b","t","c">> }

(***************************************************************************)
(* Bounds, and the ObjectIds of the store                                  *)
(***************************************************************************)
\* the number of documents ever inserted
MaxLogs == 2

\* the number of rows of an uploaded CSV
MaxRows == 2

HexChars == <<"0", "1", "2", "3", "4", "5", "6", "7", "8", "9",
              "a", "b", "c", "d", "e", "f">>

\* str(ObjectId): 24 hexadecimal characters; the n-th id handed out
IdStr(n) == [i \in 1..24 |-> IF i < 24 THEN "0" ELSE HexChars[n + 1]]

\* the labels report accepts
ValidLabels == { <<"f","p">>, <<"f","n">>, <<"t","p">>, <<"t","n">> }

(***************************************************************************)
(* The inputs of the API                                                   *)
(***************************************************************************)
UrgentVerify == <<"U","R","G","E","N","T",":"," ","v","e","r","i","f","y">>

IpUrl == <<"h","t","t","p",":","/","/","1",".","2",".","3",".","4","/">>

RuUrl == <<"h","t","t","p",":","/","/","a",".","r","u",":","8","0">>

BadUrl == <<"h","t","t","p",":","/","/","[">>

DetectRequests ==
    { [subject |-> None, body |-> None, url |-> None],
      [subject |-> UrgentVerify, body |-> <<>>, url |-> IpUrl],
      [subject |-> UrgentVerify, body |-> <<>>, url |-> RuUrl],
      [subject |-> UrgentVerify, body |-> <<>>, url |-> BadUrl] }

\* a sheet of CSV rows: None is a cell the row does not have.  Its label
\* cells: none, an integer, a label with spaces around it, something that is
\* neither, and a row whose url urlparse rejects
CsvSheet ==
    << [subject |-> UrgentVerify, body |-> <<>>, url |-> IpUrl, label |-> None],
       [subject |-> UrgentVerify, body |-> <<>>, url |-> IpUrl, label |-> <<"1">>],
       [subject |-> UrgentVerify, body |-> <<>>, url |-> RuUrl, label |-> <<" ","t","n"," ">>],
       [subject |-> None, body |-> <<>>, url |-> None, label |-> <<"s","p","a","m">>],
       [subject |-> UrgentVerify, body |-> <<>>, url |-> BadUrl, label |-> <<"0">>],
       [subject |-> None, body |-> None, url |-> None, label |-> <<"1">>],
       [subject |-> UrgentVerify, body |-> <<>>, url |-> IpUrl, label |-> <<"0">>] >>

CsvRows == {CsvSheet[i] : i \in 1..Len(CsvSheet)}

\* the uploaded files: up to MaxRows consecutive rows of the sheet, or bytes
\* that are not UTF-8
CsvFiles ==
    {[utf8 |-> TRUE, rows |-> SubSeq(CsvSheet, ij[1], ij[2])] :
        ij \in {ij \in (1..Len(CsvSheet)) \X (0..Len(CsvSheet)) :
                   ij[2] - ij[1] + 1 \in 0..MaxRows}}
    \cup {[utf8 |-> FALSE, rows |-> <<>>]}

\* the texts the classifier is asked about
ApiTexts == {FullText(r.subject, r.body) : r \in DetectRequests \cup CsvRows}

\* the classifier model.joblib holds: a function from text to probability;
\* this one puts one text below the 0.5 threshold and the other on it
LoadedClassifier == [t \in ApiTexts |-> IF t = <<" ">> THEN 49 ELSE 50]

\* the values datetime.utcnow() returns
Times == {1}

\* the log ids callers send: every id handed out, one never handed out, and
\* a string of the right length that is no ObjectId
LogIds == {IdStr(n) : n \in 1..(MaxLogs + 1)} \cup { [i \in 1..24 |-> "z"] }

\* the labels callers send: two of the valid ones and one that is not
ReportLabels == { <<"f","p">>, <<"f","n">>, <<"s","p","a","m">> }

\* simple_phishing_score on the arguments the API passes it, computed once
ScoreTable ==
    [a \in {<<OrEmpty(r.subject), OrEmpty(r.body), OrEmpty(r.url)>> :
               r \in DetectRequests \cup CsvRows} |->
        IF simple_phishing_score_raises(a[1], a[2], a[3])
        THEN [raised |-> TRUE]
        ELSE [raised |-> FALSE, result |-> simple_phishing_score(a[1], a[2], a[3])]]
    @@ <<>>

(***************************************************************************)
(* State                                                                   *)
(***************************************************************************)
\* store:      logs_collection, a function from _id to document
\* next_id:    the number of ObjectIds handed out so far, plus one
\* classifier: the loaded model.joblib, a function from text to the
\*             probability (in hundredths) predict_proba gives for it
\* response:   what the last API call returned to its caller
\* fargs:      the arguments of one direct call of a function of
\*             app/features.py
\* fcall:      what that call did
VARIABLES store, next_id, classifier, response, fargs, fcall

vars == <<store, next_id, classifier, response, fargs, fcall>>

apiVars == <<store, next_id, classifier, response>>

(***************************************************************************)
(* app/ml.py                                                               *)
(***************************************************************************)
\* a variant of predict: the heuristic score blended into the probability
predict_blended(subject, body, url) ==
    [proba |-> (classifier[FullText(subject, body)]
                + ScoreTable[<<subject, body, url>>].result.score) \div 2,
     explanations |-> ScoreTable[<<subject, body, url>>].result.explanations,
     url_feats |-> ScoreTable[<<subject, body, url>>].result.url_feats]

\* PhishingModel.predict(subject, body, url), when nothing raises
Prediction(proba_ml, h) ==
    [proba |-> proba_ml, explanations |-> h.explanations, url_feats |-> h.url_feats]

predict(subject, body, url) ==
    Prediction(classifier[FullText(subject, body)],
               ScoreTable[<<subject, body, url>>].result)

\* PhishingModel.predict raises: the classifier's inference fails, or
\* simple_phishing_score does
predict_raises(subject, body, url, inference_fails) ==
    inference_fails \/ ScoreTable[<<subject, body, url>>].raised

\* the exception PhishingModel.predict raises then: predict_proba is called
\* before simple_phishing_score
predict_exception(subject, body, url, inference_fails) ==
    IF inference_fails THEN "inference failure" ELSE "ValueError"

(***************************************************************************)
(* app/main.py                                                             *)
(***************************************************************************)
\* ObjectId(id_str) does not raise
oid_ok(id_str) == Len(id_str) = 24 /\ \A i \in 1..24 : id_str[i] \in HexDigits

\* oid(id_str): the ObjectId, written as str() writes it
oid(id_str) == Lower(id_str)

\* a variant of the update: the document replaced by {key: value}, no "$set"
ReplaceDocument(d, key, value) == [f \in {key} |-> value]

\* {"$set": {key: value}} applied to document d
SetField(d, key, value) ==
    [f \in DOMAIN d \cup {key} |-> IF f = key THEN value ELSE d[f]]

\* a variant of the threshold: "phishing" if proba > 0.5 else "legit"
VerdictAbove(proba) == IF proba > 50 THEN "phishing" ELSE "legit"

\* "phishing" if proba >= 0.5 else "legit"
Verdict(proba) == IF proba >= 50 THEN "phishing" ELSE "legit"

\* the document detect and import_csv build
Doc(now, subject, body, url, p, label) ==
    [timestamp |-> now, subject |-> subject, body |-> body, url |-> url,
     probability |-> p.proba, verdict |-> Verdict(p.proba), label |-> label,
     features |-> p.explanations, domain |-> p.url_feats.domain,
     tld |-> p.url_feats.tld, has_ip |-> p.url_feats.has_ip,
     url_length |-> p.url_feats.url_length, num_dots |-> p.url_feats.num_dots,
     source_ip |-> None]

\* logs_collection.insert_many(docs): each gets the next fresh _id
InsertMany(docs) ==
    store @@ [id \in {IdStr(next_id + k - 1) : k \in 1..Len(docs)} |->
                 docs[CHOOSE k \in 1..Len(docs) : IdStr(next_id + k - 1) = id]]

\* detect, once predict has returned p
DetectInsert(now, subject, body, url, p) ==
    /\ next_id <= MaxLogs
    /\ store' = InsertMany(<<Doc(now, subject, body, url, p, None)>>)
    /\ next_id' = next_id + 1
    /\ response' = [op |-> "detect", status |-> 200,
                    probability |-> p.proba, verdict |-> Verdict(p.proba),
                    features |-> p.explanations, log_id |-> IdStr(next_id)]

\* detect on req.subject or "", req.body or "", req.url or ""
DetectCall(now, subject, body, url, inference_fails) ==
    IF predict_raises(subject, body, url, inference_fails)
    THEN /\ response' = [op |-> "detect", status |-> 500,
                         detail |-> predict_exception(subject, body, url, inference_fails)]
         /\ UNCHANGED <<store, next_id>>
    ELSE DetectInsert(now, subject, body, url, predict(subject, body, url))

\* POST /api/detect
detect(req, now, inference_fails) ==
    DetectCall(now, OrEmpty(req.subject), OrEmpty(req.body), OrEmpty(req.url),
               inference_fails)

\* POST /api/report
report(log_id, label) ==
    IF label \notin ValidLabels
    THEN /\ response' = [op |-> "report", status |-> 400, detail |-> "label invalide (fp, fn, tp, tn)"]
         /\ UNCHANGED <<store, next_id>>
    ELSE IF ~oid_ok(log_id)
    THEN /\ response' = [op |-> "report", status |-> 400, detail |-> "log_id invalide"]
         /\ UNCHANGED <<store, next_id>>
    ELSE LET id == oid(log_id) IN
         IF id \notin DOMAIN store
         THEN /\ response' = [op |-> "report", status |-> 404, detail |-> "log introuvable"]
              /\ UNCHANGED <<store, next_id>>
         ELSE /\ response' = [op |-> "report", status |-> 200,
                              updated |-> IF store[id].label = label THEN 0 ELSE 1]
              /\ store' = [store EXCEPT ![id] = SetField(@, "label", label)]
              /\ UNCHANGED next_id

\* a variant of delete_log: delete_many where the code has delete_one
delete_many(log_id) ==
    IF ~oid_ok(log_id)
    THEN /\ response' = [op |-> "delete_log", status |-> 400, detail |-> "log_id invalide"]
         /\ UNCHANGED <<store, next_id>>
    ELSE IF oid(log_id) \notin DOMAIN store
         THEN /\ response' = [op |-> "delete_log", status |-> 404, detail |-> "log introuvable"]
              /\ UNCHANGED <<store, next_id>>
         ELSE /\ store' = <<>>
              /\ response' = [op |-> "delete_log", status |-> 200]
              /\ UNCHANGED next_id

\* DELETE /api/logs/{log_id}
delete_log(log_id) ==
    IF ~oid_ok(log_id)
    THEN /\ response' = [op |-> "delete_log", status |-> 400, detail |-> "log_id invalide"]
         /\ UNCHANGED <<store, next_id>>
    ELSE LET id == oid(log_id) IN
         IF id \notin DOMAIN store
         THEN /\ response' = [op |-> "delete_log", status |-> 404, detail |-> "log introuvable"]
              /\ UNCHANGED <<store, next_id>>
         ELSE /\ response' = [op |-> "delete_log", status |-> 200]
              /\ store' = [k \in DOMAIN store \ {id} |-> store[k]]
              /\ UNCHANGED next_id

\* int(s) does not raise, for a stripped s: an optional sign, then digits
\* with single underscores between them
IsUnsigned(body) ==
    /\ body # <<>>
    /\ \A i \in 1..Len(body) : body[i] \in Digits \cup {"_"}
    /\ body[1] # "_" /\ body[Len(body)] # "_"
    /\ \A i \in 1..(Len(body) - 1) : ~(body[i] = "_" /\ body[i + 1] = "_")

\* s without its sign
Unsigned(s) == IF s # <<>> /\ s[1] \in {"+", "-"} THEN Tail(s) ELSE s

IsIntLiteral(s) == IsUnsigned(Unsigned(s))

NotUnderscore(c) == c # "_"

\* int(s), for such an s
IntValue(s) ==
    IF s[1] = "-" THEN 0 - DecimalValue(SelectSeq(Unsigned(s), NotUnderscore))
    ELSE DecimalValue(SelectSeq(Unsigned(s), NotUnderscore))

\* import_csv: the label of a row whose stripped label cell is label_raw
LabelOf(label_raw, verdict) ==
    IF label_raw = <<>> THEN None
    ELSE IF IsIntLiteral(label_raw)
         THEN IF IntValue(label_raw) = 1 /\ verdict = "phishing" THEN <<"t","p">> ELSE None
         ELSE label_raw

\* a variant of the label of a row: the cell as it is
RowLabelRaw(row_label, verdict) == row_label

\* import_csv: the label of a row
RowLabel(row_label, verdict) ==
    LabelOf(IF row_label # None THEN Strip(row_label) ELSE <<>>, verdict)

\* import_csv: the document of one row, once predict has returned p
RowDocOf(now, subject, body, url, row_label, p) ==
    Doc(now, subject, body, url, p, RowLabel(row_label, Verdict(p.proba)))

\* import_csv: the document of one row
RowDoc(now, subject, body, url, row_label) ==
    RowDocOf(now, subject, body, url, row_label, predict(subject, body, url))

\* import_csv, once every row has its document
ImportInsert(docs) ==
    /\ next_id + Len(docs) - 1 <= MaxLogs
    /\ store' = IF docs # <<>> THEN InsertMany(docs) ELSE store
    /\ next_id' = next_id + Len(docs)
    /\ response' = [op |-> "import_csv", status |-> 200, inserted |-> Len(docs)]

\* import_csv: predict raises for row k
RowRaises(rows, fail_at, k) ==
    predict_raises(OrEmpty(rows[k].subject), OrEmpty(rows[k].body),
                   OrEmpty(rows[k].url), fail_at = k)

\* import_csv: predict raises for some row
ImportRaises(rows, fail_at) == \E k \in 1..Len(rows) : RowRaises(rows, fail_at, k)

\* import_csv: the first row predict raises for
FirstRaising(rows, fail_at) ==
    CHOOSE k \in 1..Len(rows) :
        RowRaises(rows, fail_at, k) /\ \A j \in 1..(k - 1) : ~RowRaises(rows, fail_at, j)

\* import_csv: the exception predict raises for row k
RowException(rows, fail_at, k) ==
    predict_exception(OrEmpty(rows[k].subject), OrEmpty(rows[k].body),
                      OrEmpty(rows[k].url), fail_at = k)

\* import_csv: the exception the except clause catches
ImportException(file, fail_at) ==
    IF ~file.utf8 THEN "UnicodeDecodeError"
    ELSE RowException(file.rows, fail_at, FirstRaising(file.rows, fail_at))

\* a variant of import_csv: insert_one for each row as it is scored, so the
\* rows before the one predict raises for are stored
import_csv_row_by_row(file, now, fail_at) ==
    IF ~file.utf8
    THEN /\ response' = [op |-> "import_csv", status |-> 500,
                         detail |-> ImportException(file, fail_at)]
         /\ UNCHANGED <<store, next_id>>
    ELSE LET n == IF ImportRaises(file.rows, fail_at)
                  THEN FirstRaising(file.rows, fail_at) - 1
                  ELSE Len(file.rows)
         IN /\ next_id + n - 1 <= MaxLogs
            /\ store' = IF n = 0 THEN store
                        ELSE InsertMany([k \in 1..n |->
                                 RowDoc(now, OrEmpty(file.rows[k].subject),
                                        OrEmpty(file.rows[k].body),
                                        OrEmpty(file.rows[k].url), file.rows[k].label)])
            /\ next_id' = next_id + n
            /\ response' = IF n < Len(file.rows)
                           THEN [op |-> "import_csv", status |-> 500,
                                 detail |-> ImportException(file, fail_at)]
                           ELSE [op |-> "import_csv", status |-> 200, inserted |-> n]

\* POST /api/import_csv, the uploaded file read as rows; fail_at is the row
\* at which the classifier's inference fails (0: at none)
import_csv(file, now, fail_at) ==
    IF ~file.utf8 \/ ImportRaises(file.rows, fail_at)
    THEN /\ response' = [op |-> "import_csv", status |-> 500,
                         detail |-> ImportException(file, fail_at)]
         /\ UNCHANGED <<store, next_id>>
    ELSE ImportInsert([k \in 1..Len(file.rows) |->
                          RowDoc(now, OrEmpty(file.rows[k].subject),
                                 OrEmpty(file.rows[k].body), OrEmpty(file.rows[k].url),
                                 file.rows[k].label)])

(***************************************************************************)
(* The API as a state machine                                              *)
(***************************************************************************)
NoArgs == [fn |-> "none"]

NoCall == [fn |-> "none"]

Init ==
    /\ store = <<>>
    /\ next_id = 1
    /\ classifier = LoadedClassifier
    /\ response = [op |-> "none", status |-> 0]
    /\ fargs = NoArgs
    /\ fcall = NoCall

Detect ==
    /\ \E req \in DetectRequests, now \in Times, inference_fails \in BOOLEAN :
          detect(req, now, inference_fails)
    /\ UNCHANGED <<classifier, fargs, fcall>>

Report ==
    /\ \E log_id \in LogIds, label \in ReportLabels : report(log_id, label)
    /\ UNCHANGED <<classifier, fargs, fcall>>

DeleteLog ==
    /\ \E log_id \in LogIds : delete_log(log_id)
    /\ UNCHANGED <<classifier, fargs, fcall>>

ImportCsv ==
    /\ \E file \in CsvFiles, now \in Times :
          \E fail_at \in 0..Len(file.rows) : import_csv(file, now, fail_at)
    /\ UNCHANGED <<classifier, fargs, fcall>>

Next == Detect \/ Report \/ DeleteLog \/ ImportCsv

Spec == Init /\ [][Next]_vars

(***************************************************************************)
(* Direct calls of the functions of app/features.py                        *)
(***************************************************************************)
ExtractArgs == {[fn |-> "extract_url_features", url |-> u] : u \in Urls}

\* the call extract_url_features(url)
CallExtract ==
    /\ fcall = NoCall
    /\ fargs.fn = "extract_url_features"
    /\ fcall' = IF extract_url_features_raises(fargs.url)
                THEN [fn |-> fargs.fn, raised |-> TRUE]
                ELSE [fn |-> fargs.fn, raised |-> FALSE,
                      feats |-> extract_url_features(fargs.url)]
    /\ UNCHANGED <<fargs, apiVars>>

ScoreArgs ==
    {[fn |-> "simple_phishing_score", subject |-> sb[1], body |-> sb[2], url |-> u] :
        sb \in Subjects \X Bodies, u \in ScoreUrls}

\* the call simple_phishing_score(subject, body, url)
CallScore ==
    /\ fcall = NoCall
    /\ fargs.fn = "simple_phishing_score"
    /\ fcall' = IF simple_phishing_score_raises(fargs.subject, fargs.body, fargs.url)
                THEN [fn |-> fargs.fn, raised |-> TRUE]
                ELSE [fn |-> fargs.fn, raised |-> FALSE,
                      result |-> simple_phishing_score(fargs.subject, fargs.body, fargs.url)]
    /\ UNCHANGED <<fargs, apiVars>>

FeatInit ==
    /\ fargs \in ExtractArgs \cup ScoreArgs
    /\ fcall = NoCall
    /\ store = <<>>
    /\ next_id = 1
    /\ classifier = LoadedClassifier
    /\ response = [op |-> "none", status |-> 0]

FeatNext == CallExtract \/ CallScore

FeatSpec == FeatInit /\ [][FeatNext]_vars

(***************************************************************************)
(* Properties of the API                                                   *)
(***************************************************************************)
\* C1, as the code has it: report(log_id, label) with a label of fp, fn, tp,
\* tn sets the label of the record with that id and changes no other field
\* of it and no other record; for a well-formed id no record has, it answers
\* 404 and the store is unchanged; for a string that is no well-formed id, it
\* answers 400 (invalid id), not 404, and the store is unchanged.
C1_ReportFrame ==
    [][response'.op = "report" =>
          \A log_id \in LogIds :
              LET id == Lower(log_id) IN
              \A label \in ReportLabels \cap ValidLabels :
                  report(log_id, label) =>
                      IF id \in DOMAIN store
                      THEN /\ response'.status = 200
                           /\ DOMAIN store' = DOMAIN store
                           /\ store'[id].label = label
                           /\ DOMAIN store'[id] = DOMAIN store[id]
                           /\ \A f \in DOMAIN store[id] \ {"label"} :
                                 store'[id][f] = store[id][f]
                           /\ \A other \in DOMAIN store \ {id} :
                                 store'[other] = store[other]
                      ELSE /\ store' = store
                           /\ response'.status = IF oid_ok(log_id) THEN 404 ELSE 400]_vars

\* C1 as stated: the same, but every id no record has, well-formed or not,
\* is answered 404
C1_Original ==
    [][response'.op = "report" =>
          \A log_id \in LogIds :
              LET id == Lower(log_id) IN
              \A label \in ReportLabels \cap ValidLabels :
                  report(log_id, label) =>
                      IF id \in DOMAIN store
                      THEN /\ response'.status = 200
                           /\ store'[id].label = label
                           /\ \A other \in DOMAIN store \ {id} :
                                 store'[other] = store[other]
                      ELSE /\ store' = store
                           /\ response'.status = 404]_vars

\* report has set the label of one of two stored records
C1_Updated ==
    /\ response.op = "report" /\ response.status = 200 /\ response.updated = 1
    /\ Cardinality(DOMAIN store) = 2
    /\ \E id \in DOMAIN store : store[id].label = <<"f","p">>
    /\ \E id \in DOMAIN store : store[id].label = None

\* C2: in every reachable state the label of every stored record is absent
\* or one of fp, fn, tp, tn; and a report with any other label is answered
\* 400 and leaves the store unchanged.
C2_LabelsValid ==
    /\ [](\A id \in DOMAIN store : store[id].label \in ValidLabels \cup {None})
    /\ [][\A log_id \in LogIds, label \in ReportLabels \ ValidLabels :
             report(log_id, label) => response'.status = 400 /\ store' = store]_vars

C4_VerdictThreshold ==
    /\ \A id \in DOMAIN store :
          /\ store[id].verdict \in {"phishing", "legit"}
          /\ store[id].verdict = "phishing" <=> store[id].probability >= 50
    /\ response.op = "detect" /\ response.status = 200 =>
          /\ response.verdict \in {"phishing", "legit"}
          /\ response.verdict = "phishing" <=> response.probability >= 50

\* a record of probability exactly 0.5 is stored as phishing and has since
\* been labelled, next to one below the threshold
C4_Boundary ==
    /\ \E id \in DOMAIN store :
          /\ store[id].probability = 50 /\ store[id].verdict = "phishing"
          /\ store[id].label = <<"f","n">>
    /\ \E id \in DOMAIN store :
          store[id].probability = 49 /\ store[id].verdict = "legit"

\* C5, as the code has it: delete_log on the id of a stored record removes
\* that record and leaves the others as they were; on a well-formed id no
\* record has it answers 404, on a string that is no well-formed id it
\* answers 400, and in both cases nothing changes; and once the record of an
\* id handed out is gone, no call stores a record under that id again, and a
\* delete_log or a report (with a valid label) for it answers 404.
C5_Delete ==
    [][/\ response'.op = "delete_log" =>
             \A log_id \in LogIds :
                 LET id == Lower(log_id) IN
                 delete_log(log_id) =>
                     IF id \in DOMAIN store
                     THEN /\ response'.status = 200
                          /\ DOMAIN store' = DOMAIN store \ {id}
                          /\ \A other \in DOMAIN store' : store'[other] = store[other]
                     ELSE /\ store' = store
                          /\ response'.status = IF oid_ok(log_id) THEN 404 ELSE 400
       /\ \A n \in 1..MaxLogs :
             LET id == IdStr(n) IN
             n < next_id /\ id \notin DOMAIN store =>
                 /\ id \notin DOMAIN store'
                 /\ response'.op = "delete_log"
                    /\ ~(response'.status = 404 /\ store' = store) => ~delete_log(id)
                 /\ response'.op = "report"
                    /\ ~(response'.status = 404 /\ store' = store) =>
                       \A label \in ReportLabels \cap ValidLabels : ~report(id, label)]_vars

\* C5 as stated: the same, but a delete_log on any id no record has, well-formed
\* or not, is answered 404
C5_Original ==
    [][/\ response'.op = "delete_log" =>
             \A log_id \in LogIds :
                 LET id == Lower(log_id) IN
                 delete_log(log_id) =>
                     IF id \in DOMAIN store
                     THEN /\ response'.status = 200
                          /\ DOMAIN store' = DOMAIN store \ {id}
                     ELSE /\ store' = store
                          /\ response'.status = 404
       /\ \A n \in 1..MaxLogs :
             n < next_id /\ IdStr(n) \notin DOMAIN store => IdStr(n) \notin DOMAIN store']_vars

\* delete_log has removed one of two stored records
C5_Deleted ==
    /\ response.op = "delete_log" /\ response.status = 200
    /\ next_id = 3
    /\ Cardinality(DOMAIN store) = 1

\* C6: when the classifier's inference fails, detect answers 500 and stores
\* no record, and import_csv answers 500 and stores none of the file's rows,
\* whichever row the inference fails at.  Stated the other way round: a
\* detect or import_csv step that did not answer 500, or changed the store,
\* is no call in which the inference failed.
C6_InferenceFailure ==
    [][/\ response'.op = "detect" /\ ~(response'.status = 500 /\ store' = store) =>
             \A req \in DetectRequests, now \in Times : ~detect(req, now, TRUE)
       /\ response'.op = "import_csv" /\ ~(response'.status = 500 /\ store' = store) =>
             \A file \in CsvFiles, now \in Times :
                 \A fail_at \in 1..Len(file.rows) : ~import_csv(file, now, fail_at)]_vars

\* an import has failed on the classifier's inference, with records stored
\* before it
C6_ImportFailed ==
    /\ response.op = "import_csv" /\ response.status = 500
    /\ response.detail = "inference failure"
    /\ DOMAIN store # {}

\* C7: the probability of every stored record, and of every answer of
\* detect, is the classifier's for subject + " " + body, so two records with
\* the same subject and body have the same probability and verdict whatever
\* their urls and heuristic scores.
C7_ProbabilityFromText ==
    /\ \A id \in DOMAIN store :
          store[id].probability
              = classifier[store[id].subject \o <<" ">> \o store[id].body]
    /\ \A a, b \in DOMAIN store :
          store[a].subject = store[b].subject /\ store[a].body = store[b].body =>
              /\ store[a].probability = store[b].probability
              /\ store[a].verdict = store[b].verdict
    /\ response.op = "detect" /\ response.status = 200 =>
          /\ response.probability = store[response.log_id].probability
          /\ response.verdict = store[response.log_id].verdict

\* two records with the same subject and body, different urls and different
\* heuristic scores are stored
C7_SameTextTwoUrls ==
    \E a, b \in DOMAIN store :
        /\ store[a].subject = store[b].subject /\ store[a].body = store[b].body
        /\ store[a].url # store[b].url
        /\ ScoreTable[<<store[a].subject, store[a].body, store[a].url>>].result.score
              # ScoreTable[<<store[b].subject, store[b].body, store[b].url>>].result.score

(***************************************************************************)
(* Properties of the functions of app/features.py                          *)
(***************************************************************************)
\* C8: extract_url_features never raises, whatever the url, and for the
\* empty string it returns domain None, tld None, has_ip False, url_length
\* 0, num_dots 0.
C8_Total ==
    fcall.fn = "extract_url_features" =>
        /\ ~fcall.raised
        /\ fargs.url = <<>> =>
              fcall.feats = [domain |-> None, tld |-> None, has_ip |-> FALSE,
                             url_length |-> 0, num_dots |-> 0]

\* C9: for a non-empty url, the domain extract_url_features returns is the
\* netloc (the path when there is no netloc) without its trailing ":port",
\* and whole when it ends in none.
C9_TrailingPort ==
    fcall.fn = "extract_url_features" /\ ~fcall.raised /\ fargs.url # <<>> =>
        LET authority == NetlocOrPath(urlparse(fargs.url))
            colon == RFind(authority, ":")
        IN fcall.feats.domain =
              IF /\ colon > 0
                 /\ \A k \in (colon + 1)..Len(authority) : authority[k] \in Digits
              THEN Before(authority, colon)
              ELSE authority

\* C10: the explanations simple_phishing_score returns are one entry for
\* each rule that fired, in the order words, IP, TLD, length; when no rule
\* fired they are the one fallback string, which appears in no other case;
\* so the list is never empty.
C10_Explanations ==
    fcall.fn = "simple_phishing_score" /\ ~fcall.raised =>
        LET count == suspicious_words_count(FullText(fargs.subject, fargs.body))
            feats == fcall.result.url_feats
            rules == << [fired |-> count > 0, text |-> ExplainWords(count)],
                        [fired |-> feats.has_ip, text |-> ExplainIp],
                        [fired |-> feats.tld \in suspicious_tlds,
                         text |-> ExplainTld(feats.tld)],
                        [fired |-> feats.url_length > 80, text |-> ExplainLength] >>
            fired == SelectSeq(rules, LAMBDA r : r.fired)
            got == fcall.result.explanations
        IN /\ got # <<>>
           /\ fired # <<>> =>
                 /\ Len(got) = Len(fired)
                 /\ \A i \in 1..Len(fired) : got[i] = fired[i].text
                 /\ \A i \in 1..Len(got) : got[i] # ExplainNothing
           /\ fired = <<>> => got = <<ExplainNothing>>

\* a call has returned three explanations, the first of them for the words
C10_ThreeFired ==
    /\ fcall.fn = "simple_phishing_score" /\ ~fcall.raised
    /\ Len(fcall.result.explanations) = 3
    /\ fcall.result.explanations[1]
          = ExplainWords(suspicious_words_count(FullText(fargs.subject, fargs.body)))

\* C11: the score simple_phishing_score returns is the sum of the four
\* contributions (0.12 for each word found, at most 0.6; 0.25 for an IP
\* address; 0.15 for a suspicious TLD; 0.10 for a url longer than 80
\* characters), brought into [0.0, 1.0]; so it lies between 0.0 and 1.0
\* (0 and 100 hundredths).
C11_ScoreSum ==
    fcall.fn = "simple_phishing_score" /\ ~fcall.raised =>
        LET count == suspicious_words_count(FullText(fargs.subject, fargs.body))
            feats == fcall.result.url_feats
            sum == (IF count * 12 <= 60 THEN count * 12 ELSE 60)
                   + (IF feats.has_ip THEN 25 ELSE 0)
                   + (IF feats.tld \in suspicious_tlds THEN 15 ELSE 0)
                   + (IF feats.url_length > 80 THEN 10 ELSE 0)
        IN /\ fcall.result.score = IF sum < 0 THEN 0 ELSE IF sum > 100 THEN 100 ELSE sum
           /\ fcall.result.score >= 0
           /\ fcall.result.score <= 100

\* a call has returned with more words found than the cap counts, an IP
\* address and a long url: 0.6 + 0.25 + 0.10
C11_CappedWords ==
    /\ fcall.fn = "simple_phishing_score" /\ ~fcall.raised
    /\ suspicious_words_count(FullText(fargs.subject, fargs.body)) > 5
    /\ fcall.result.url_feats.has_ip
    /\ fcall.result.url_feats.url_length > 80
    /\ fcall.result.score = 95

\* C12: for every url, when has_ip is true the tld is a label of digits
\* only, so it is none of ru, cn, xyz, top, club and the IP rule and the TLD
\* rule do not both fire; hence the sum of the four contributions is at most
\* 0.95 and the score is that sum, unchanged by the clamp.
C12_IpExcludesTld ==
    /\ fcall.fn = "extract_url_features" /\ ~fcall.raised /\ fcall.feats.has_ip =>
          /\ fcall.feats.tld # None /\ fcall.feats.tld # <<>>
          /\ \A i \in 1..Len(fcall.feats.tld) : fcall.feats.tld[i] \in Digits
          /\ fcall.feats.tld \notin suspicious_tlds
    /\ fcall.fn = "simple_phishing_score" /\ ~fcall.raised =>
          LET count == suspicious_words_count(FullText(fargs.subject, fargs.body))
              feats == fcall.result.url_feats
              unclamped == (IF count * 12 <= 60 THEN count * 12 ELSE 60)
                           + (IF feats.has_ip THEN 25 ELSE 0)
                           + (IF feats.tld \in suspicious_tlds THEN 15 ELSE 0)
                           + (IF feats.url_length > 80 THEN 10 ELSE 0)
          IN /\ ~(feats.has_ip /\ feats.tld \in suspicious_tlds)
             /\ feats.has_ip =>
                   /\ feats.tld # None
                   /\ \A i \in 1..Len(feats.tld) : feats.tld[i] \in Digits
             /\ unclamped <= 95
             /\ fcall.result.score = unclamped

\* extract_url_features has returned has_ip true, for an address with a port
C12_IpWithPort ==
    /\ fcall.fn = "extract_url_features" /\ ~fcall.raised
    /\ fcall.feats.has_ip
    /\ fcall.feats.tld = <<"4">>
    /\ \E i \in 1..Len(fargs.url) : fargs.url[i] = ":" /\ i > 5

=============================================================================
